---- MODULE Spec2Model ----
(***************************************************************************)
(* Model of the Linux CPU back end of hwinfo (src/src/linux/cpu.cpp):      *)
(* getAllCPUs() parsing /proc/cpuinfo into CPU records, and the            *)
(* utilisation sampler of a CPU record.                                    *)
(*                                                                         *)
(* A text (std::string) is a sequence of tokens.  Every character the code *)
(* inspects on its own (white space, ':', '+', '-', digits, the letters of *)
(* a hexadecimal code) is a token of its own; a run of other letters may   *)
(* be written as one token.  Str(t) is the string a text stands for, and   *)
(* the code's string comparisons are comparisons of Str values.            *)
(***************************************************************************)
EXTENDS Integers, Sequences, FiniteSets, TLC

\* ------------------------------------------------------------------------
\* Bounds of the model
\* ------------------------------------------------------------------------
\* blocks of MainBlocks in a file
MaxBlocks == 3

\* blocks of MainBlocks around a block of EdgeBlocks
MaxContext == 2

\* ------------------------------------------------------------------------
\* Strings
\* ------------------------------------------------------------------------
RECURSIVE Str(_)
Str(t) == IF t = <<>> THEN "" ELSE Head(t) \o Str(Tail(t))

\* the characters utils::strip removes
IsSpace(c) == c \in {" ", "\t", "\n", "\r"}

\* std::string::find(d): index of the first occurrence of d in t, 0 if none
Find(t, d) ==
  LET hits == {i \in 1..(Len(t) - Len(d) + 1) : SubSeq(t, i, i + Len(d) - 1) = d}
  IN IF hits = {} THEN 0 ELSE CHOOSE i \in hits : \A j \in hits : i <= j

\* utils::split(input, delimiter): the pieces between all occurrences
RECURSIVE split(_, _)
split(t, d) ==
  LET m == Find(t, d)
  IN IF m = 0 THEN <<t>>
     ELSE <<SubSeq(t, 1, m - 1)>> \o split(SubSeq(t, m + Len(d), Len(t)), d)

\* utils::strip(s): drop leading and trailing white space
RECURSIVE StripLeft(_)
StripLeft(t) == IF t # <<>> /\ IsSpace(Head(t)) THEN StripLeft(Tail(t)) ELSE t

RECURSIVE StripRight(_)
StripRight(t) ==
  IF t # <<>> /\ IsSpace(t[Len(t)]) THEN StripRight(SubSeq(t, 1, Len(t) - 1)) ELSE t

strip(t) == StripRight(StripLeft(t))

\* a test that takes only the empty block for blank
IsEmptyBlock(blk) == blk = <<>>

\* blk.find_first_not_of(" \n\r\t") == npos
IsBlankBlock(blk) == \A i \in 1..Len(blk) : blk[i] \in {" ", "\n", "\r", "\t"}

\* implementer.rfind("0x", 0) == 0
HasHexPrefix(t) == Len(t) >= 2 /\ t[1] = "0" /\ t[2] = "x"

\* ------------------------------------------------------------------------
\* std::stoi / std::stol
\* ------------------------------------------------------------------------
IntMax == 2147483647

Digits == <<"0", "1", "2", "3", "4", "5", "6", "7", "8", "9">>

IsDigit(c) == \E i \in 1..10 : Digits[i] = c

DigitVal(c) == (CHOOSE i \in 1..10 : Digits[i] = c) - 1

\* white space skipped by strtol (isspace)
IsCSpace(c) == c \in {" ", "\t", "\n", "\r", "\f"}

RECURSIVE SkipCSpace(_)
SkipCSpace(t) == IF t # <<>> /\ IsCSpace(Head(t)) THEN SkipCSpace(Tail(t)) ELSE t

\* the digits at the head of t, accumulated into acc; over is set when the
\* value leaves the range of int
RECURSIVE Accumulate(_, _)
Accumulate(t, acc) ==
  IF t = <<>> \/ ~IsDigit(Head(t)) THEN acc
  ELSE LET d == DigitVal(Head(t))
       IN IF acc.over \/ acc.val > (IntMax - d) \div 10
          THEN Accumulate(Tail(t), [acc EXCEPT !.over = TRUE, !.n = @ + 1])
          ELSE Accumulate(Tail(t), [acc EXCEPT !.val = @ * 10 + d, !.n = @ + 1])

\* std::stoi(value): threw is set for std::invalid_argument (no digits) and
\* std::out_of_range
stoi(t) ==
  LET s == SkipCSpace(t)
      neg == s # <<>> /\ Head(s) = "-"
      u == IF s # <<>> /\ Head(s) \in {"+", "-"} THEN Tail(s) ELSE s
      a == Accumulate(u, [val |-> 0, n |-> 0, over |-> FALSE])
  IN IF a.n = 0 \/ a.over THEN [threw |-> TRUE, val |-> 0]
     ELSE [threw |-> FALSE, val |-> IF neg THEN 0 - a.val ELSE a.val]

\* std::stol(value): as stoi, the inputs of the model staying far below the
\* range of long
stol(t) == stoi(t)

\* ------------------------------------------------------------------------
\* ARM tables
\* ------------------------------------------------------------------------
\* A std::map is the set of its <<key, value>> entries.
MapKeys(map) == {e[1] : e \in map}

\* it->second of map.find(key)
MapAt(map, key) == (CHOOSE e \in map : e[1] = key)[2]

ARM_IMPLEMENTERS ==
  { <<"0x41", "ARM">>, <<"0x42", "Broadcom">>, <<"0x43", "Cavium">>,
    <<"0x44", "DEC">>, <<"0x4e", "NVIDIA">>, <<"0x50", "APM">>,
    <<"0x51", "Qualcomm">>, <<"0x53", "Samsung">>, <<"0x54", "Texas Instruments">>,
    <<"0x56", "Marvell">>, <<"0x66", "Faraday">>, <<"0x69", "Intel">> }

arm_models ==
  {
  <<"0x41",
     {<<"0x810", "ARM810">>,
        <<"0x920", "ARM920">>,
        <<"0x922", "ARM922">>,
        <<"0x926", "ARM926">>,
        <<"0x940", "ARM940">>,
        <<"0x946", "ARM946">>,
        <<"0x966", "ARM966">>,
        <<"0xa20", "ARM1020">>,
        <<"0xa22", "ARM1022">>,
        <<"0xa26", "ARM1026">>,
        <<"0xb02", "ARM11 MPCore">>,
        <<"0xb36", "ARM1136">>,
        <<"0xb56", "ARM1156">>,
        <<"0xb76", "ARM1176">>,
        <<"0xc05", "Cortex-A5">>,
        <<"0xc07", "Cortex-A7">>,
        <<"0xc08", "Cortex-A8">>,
        <<"0xc09", "Cortex-A9">>,
        <<"0xc0d", "Cortex-A17 (Original A12)">>,
        <<"0xc0e", "Cortex-A17">>,
        <<"0xc0f", "Cortex-A15">>,
        <<"0xc14", "Cortex-R4">>,
        <<"0xc15", "Cortex-R5">>,
        <<"0xc17", "Cortex-R7">>,
        <<"0xc18", "Cortex-R8">>,
        <<"0xc20", "Cortex-M0">>,
        <<"0xc21", "Cortex-M1">>,
        <<"0xc23", "Cortex-M3">>,
        <<"0xc24", "Cortex-M4">>,
        <<"0xc27", "Cortex-M7">>,
        <<"0xc60", "Cortex-M0+">>,
        <<"0xd01", "Cortex-A32">>,
        <<"0xd03", "Cortex-A53">>,
        <<"0xd04", "Cortex-A35">>,
        <<"0xd05", "Cortex-A55">>,
        <<"0xd07", "Cortex-A57">>,
        <<"0xd08", "Cortex-A72">>,
        <<"0xd09", "Cortex-A73">>,
        <<"0xd0a", "Cortex-A75">>,
        <<"0xd0b", "Cortex-A76">>,
        <<"0xd0c", "Neoverse-N1">>,
        <<"0xd0d", "Cortex-A77">>,
        <<"0xd13", "Cortex-R52">>,
        <<"0xd20", "Cortex-M23">>,
        <<"0xd21", "Cortex-M33">>,
        <<"0xd40", "Neoverse-V1">>,
        <<"0xd41", "Cortex-A78">>,
        <<"0xd42", "Cortex-A78AE">>,
        <<"0xd44", "Cortex-X1">>,
        <<"0xd46", "Cortex-A510">>,
        <<"0xd47", "Cortex-A710">>,
        <<"0xd48", "Cortex-X2">>,
        <<"0xd49", "Neoverse-N2">>,
        <<"0xd4a", "Neoverse-E1">>,
        <<"0xd4b", "Cortex-A78C">>,
        <<"0xd4d", "Cortex-A715">>}>>,
  <<"0x42",
     {<<"0x00f", "Brahma B15">>,
        <<"0x100", "Brahma B53">>,
        <<"0x516", "ThunderX2">>}>>,
  <<"0x43",
     {<<"0x0a0", "ThunderX">>,
        <<"0x0a1", "ThunderX 88XX">>,
        <<"0x0a2", "ThunderX 81XX">>,
        <<"0x0a3", "ThunderX 83XX">>,
        <<"0x0af", "ThunderX2 99xx">>}>>,
  <<"0x44",
     {<<"0xa10", "SA110">>,
        <<"0xa11", "SA1100">>}>>,
  <<"0x4e",
     {<<"0x000", "Denver">>,
        <<"0x003", "Denver 2">>}>>,
  <<"0x50",
     {<<"0x000", "X-Gene">>}>>,
  <<"0x51",
     {<<"0x00f", "Scorpion">>,
        <<"0x02d", "Scorpion">>,
        <<"0x04d", "Krait">>,
        <<"0x06f", "Krait">>,
        <<"0x201", "Kryo">>,
        <<"0x205", "Kryo">>,
        <<"0x211", "Kryo">>,
        <<"0x800", "Falkor V1/Kryo">>,
        <<"0x801", "Kryo V2">>,
        <<"0x802", "Kryo 3xx gold">>,
        <<"0x803", "Kryo 3xx silver">>,
        <<"0x804", "Kryo 4xx/5xx gold">>,
        <<"0x805", "Kryo 4xx/5xx silver">>,
        <<"0xc00", "Falkor">>,
        <<"0xc01", "Saphira">>}>>,
  <<"0x53",
     {<<"0x001", "Exynos-m1">>}>>,
  <<"0x54", {}>>,
  <<"0x56",
     {<<"0x131", "Feroceon 88FR131">>,
        <<"0x581", "PJ4/PJ4b">>,
        <<"0x584", "PJ4B-MP">>}>>,
  <<"0x66",
     {<<"0x526", "FA526">>,
        <<"0x626", "FA626">>}>>,
  <<"0x69",
     {<<"0x200", "i80200">>,
        <<"0x210", "PXA250A">>,
        <<"0x212", "PXA210A">>,
        <<"0x242", "i80321-400">>,
        <<"0x243", "i80321-600">>,
        <<"0x290", "PXA250B/PXA26x">>,
        <<"0x292", "PXA210B">>,
        <<"0x2c2", "i80321-400-B0">>,
        <<"0x2c3", "i80321-600-B0">>,
        <<"0x2d0", "PXA250C/PXA255/PXA26x">>,
        <<"0x2d2", "PXA210C">>,
        <<"0x2e3", "i80219">>,
        <<"0x411", "PXA27x">>,
        <<"0x41c", "IPX425-533">>,
        <<"0x41d", "IPX425-400">>,
        <<"0x41f", "IPX425-266">>,
        <<"0x682", "PXA32x">>,
        <<"0x683", "PXA930/PXA935">>,
        <<"0x688", "PXA30x">>,
        <<"0x689", "PXA31x">>,
        <<"0xb11", "SA1110">>,
        <<"0xc12", "IPX1200">>}>>
  }

\* a lookup that gives the part code back when the part is not in the table
getARMModelNameEcho(implementer, part_hex) ==
  IF /\ implementer \in MapKeys(arm_models)
     /\ part_hex \in MapKeys(MapAt(arm_models, implementer))
  THEN MapAt(MapAt(arm_models, implementer), part_hex)
  ELSE IF implementer \in MapKeys(arm_models) THEN part_hex ELSE "Unknown Model"

getARMModelName(implementer, part_hex) ==
  IF /\ implementer \in MapKeys(arm_models)
     /\ part_hex \in MapKeys(MapAt(arm_models, implementer))
  THEN MapAt(MapAt(arm_models, implementer), part_hex)
  ELSE "Unknown Model"

\* ------------------------------------------------------------------------
\* Frequency prober.  sysfs is the set of the readable cpufreq files, each
\* <<path, the number it holds (kHz)>>.
\* ------------------------------------------------------------------------
VARIABLE sysfs

\* filesystem::get_specs_by_file_path(path): the number in the file, -1 when
\* the file is absent or unreadable
get_specs_by_file_path(fs, path) ==
  IF \E f \in fs : f[1] = path THEN (CHOOSE f \in fs : f[1] = path)[2] ELSE 0 - 1

\* a prober that goes on to the end of the list and returns the value of the
\* last path that can be read
RECURSIVE getFrequencyFromPathsLast(_, _)
getFrequencyFromPathsLast(fs, paths) ==
  IF paths = <<>> THEN 0 - 1
  ELSE LET Hz == get_specs_by_file_path(fs, paths[Len(paths)])
       IN IF Hz > 0 - 1 THEN Hz \div 1000
          ELSE getFrequencyFromPathsLast(fs, SubSeq(paths, 1, Len(paths) - 1))

RECURSIVE getFrequencyFromPaths(_, _)
getFrequencyFromPaths(fs, paths) ==
  IF paths = <<>> THEN 0 - 1
  ELSE LET Hz == get_specs_by_file_path(fs, Head(paths))
       IN IF Hz > 0 - 1 THEN Hz \div 1000 ELSE getFrequencyFromPaths(fs, Tail(paths))

basePath(core_id) == "/sys/devices/system/cpu/cpu" \o ToString(core_id) \o "/cpufreq/"

policyPath(core_id) == "/sys/devices/system/cpu/cpufreq/policy" \o ToString(core_id) \o "/"

maxFrequencyPaths(core_id) ==
  << basePath(core_id) \o "scaling_max_freq",
     basePath(core_id) \o "cpuinfo_max_freq",
     policyPath(core_id) \o "scaling_max_freq",
     policyPath(core_id) \o "cpuinfo_max_freq" >>

getMaxClockSpeed_MHz(fs, core_id) == getFrequencyFromPaths(fs, maxFrequencyPaths(core_id))

regularFrequencyPaths(core_id) ==
  << basePath(core_id) \o "base_frequency",
     basePath(core_id) \o "scaling_cur_freq",
     basePath(core_id) \o "cpuinfo_cur_freq",
     policyPath(core_id) \o "scaling_cur_freq",
     policyPath(core_id) \o "cpuinfo_cur_freq" >>

getRegularClockSpeed_MHz(fs, core_id) ==
  getFrequencyFromPaths(fs, regularFrequencyPaths(core_id))

minFrequencyPaths(core_id) ==
  << basePath(core_id) \o "scaling_min_freq",
     basePath(core_id) \o "cpuinfo_min_freq",
     policyPath(core_id) \o "scaling_min_freq",
     policyPath(core_id) \o "cpuinfo_min_freq" >>

getMinClockSpeed_MHz(fs, core_id) == getFrequencyFromPaths(fs, minFrequencyPaths(core_id))

\* ------------------------------------------------------------------------
\* CPU records
\* ------------------------------------------------------------------------
\* the value of a numeric field of a CPU that was never assigned
Unset == 0 - 1

\* CPU cpu;  (default-constructed record)
NewCPU ==
  [ _id |-> Unset, _modelName |-> "", _vendor |-> "",
    _numPhysicalCores |-> Unset, _numLogicalCores |-> Unset,
    _maxClockSpeed_MHz |-> Unset, _regularClockSpeed_MHz |-> Unset,
    _L3CacheSize_Bytes |-> Unset, _flags |-> <<>> ]

\* ------------------------------------------------------------------------
\* getAllCPUs: one line of a block
\* ------------------------------------------------------------------------
\* The state of the loop over the lines of one block: the candidate cpu, the
\* block's implementer / partHex / variant, the function's isARM,
\* maxProcessorIndex and cpuId, and threw (an exception left the loop).
ParseLine(st, line) ==
  LET kv == split(line, <<":">>)
  IN IF st.threw \/ Len(kv) < 2 THEN st
     ELSE
       LET name == Str(strip(kv[1]))
           value == strip(kv[2])
       IN CASE name = "vendor_id" -> [st EXCEPT !.cpu._vendor = Str(value)]
            [] name = "CPU implementer" ->
                 LET implementer == IF HasHexPrefix(value)
                                    THEN SubSeq(value, 3, Len(value)) ELSE value
                     implementerKey == "0x" \o Str(implementer)
                 IN IF implementerKey \in MapKeys(ARM_IMPLEMENTERS)
                    THEN [st EXCEPT !.implementer = implementer,
                                    !.isARM = TRUE,
                                    !.cpu._vendor = MapAt(ARM_IMPLEMENTERS, implementerKey)]
                    ELSE [st EXCEPT !.implementer = implementer,
                                    !.cpu._vendor =
                                       "Unknown Vendor (" \o implementerKey \o ")"]
            [] name = "processor" ->
                 LET r == stoi(value)
                 IN IF r.threw THEN [st EXCEPT !.threw = TRUE]
                    ELSE [st EXCEPT !.cpuId = r.val, !.maxProcessorIndex = @ + 1]
            [] name = "model name" \/ name = "Processor" ->
                 [st EXCEPT !.cpu._modelName = Str(value)]
            [] name = "cache size" ->
                 LET tokens == split(value, <<" ">>)
                     r == stol(tokens[1])
                 IN IF r.threw THEN st   \* catch (...) { }
                    ELSE [st EXCEPT !.cpu._L3CacheSize_Bytes = r.val * 1024]
            [] name = "siblings" ->
                 LET r == stoi(value)
                 IN IF r.threw THEN [st EXCEPT !.threw = TRUE]
                    ELSE [st EXCEPT !.cpu._numLogicalCores = r.val]
            [] name = "cpu cores" ->
                 LET r == stoi(value)
                 IN IF r.threw THEN [st EXCEPT !.threw = TRUE]
                    ELSE [st EXCEPT !.cpu._numPhysicalCores = r.val]
            [] name = "flags" \/ name = "Features" ->
                 LET toks == split(value, <<" ">>)
                 IN [st EXCEPT !.cpu._flags = [i \in 1..Len(toks) |-> Str(toks[i])]]
            [] name = "physical id" ->
                 LET r == stoi(value)
                 IN IF r.threw THEN [st EXCEPT !.threw = TRUE]
                    ELSE [st EXCEPT !.cpu._id = r.val]
            [] name = "CPU part" ->
                 IF st.implementer # <<>>
                 THEN [st EXCEPT !.partHex = value,
                                 !.cpu._modelName =
                                    getARMModelName("0x" \o Str(st.implementer), Str(value))]
                 ELSE [st EXCEPT !.partHex = value]
            [] name = "CPU variant" -> [st EXCEPT !.variant = value]
            [] OTHER -> st

RECURSIVE ParseLines(_, _)
ParseLines(st, lines) ==
  IF lines = <<>> THEN st ELSE ParseLines(ParseLine(st, Head(lines)), Tail(lines))

\* ------------------------------------------------------------------------
\* getAllCPUs: one block
\* ------------------------------------------------------------------------
\* Order of std::string (characters by code), used by the std::map armCoreMap
AsciiOrder ==
  <<"\t", "\n", "\r", " ", "+", "-", "0", "1", "2", "3", "4", "5", "6", "7", "8", "9",
    ":", "a", "b", "c", "d", "e", "f", "x">>

Rank(c) ==
  IF \E i \in 1..Len(AsciiOrder) : AsciiOrder[i] = c
  THEN CHOOSE i \in 1..Len(AsciiOrder) : AsciiOrder[i] = c
  ELSE Len(AsciiOrder) + 1

RECURSIVE TextLess(_, _)
TextLess(a, b) ==
  IF b = <<>> THEN FALSE
  ELSE IF a = <<>> THEN TRUE
  ELSE IF Rank(Head(a)) # Rank(Head(b)) THEN Rank(Head(a)) < Rank(Head(b))
  ELSE TextLess(Tail(a), Tail(b))

\* operator< of std::tuple<std::string, std::string, std::string>
KeyLess(k1, k2) ==
  \/ TextLess(k1[1], k2[1])
  \/ k1[1] = k2[1] /\ TextLess(k1[2], k2[2])
  \/ k1[1] = k2[1] /\ k1[2] = k2[2] /\ TextLess(k1[3], k2[3])

\* the keys of armCoreMap in the order of iteration of the std::map
RECURSIVE SortedKeys(_)
SortedKeys(keys) ==
  IF keys = {} THEN <<>>
  ELSE LET k == CHOOSE x \in keys : \A y \in keys \ {x} : KeyLess(x, y)
       IN <<k>> \o SortedKeys(keys \ {k})

\* The state of getAllCPUs between two blocks: cpus, armCoreMap, isARM,
\* maxProcessorIndex, cpuId, and threw (an exception left the function).
StartState ==
  [ cpus |-> <<>>, armCoreMap |-> <<>>, isARM |-> FALSE,
    maxProcessorIndex |-> 0, cpuId |-> 0, threw |-> FALSE ]

\* the locals at the top of the loop body: `CPU cpu; std::string implementer;
\* std::string partHex; std::string variant;`
BlockStart(g) ==
  [ cpu |-> NewCPU, implementer |-> <<>>, partHex |-> <<>>, variant |-> <<>>,
    isARM |-> g.isARM, maxProcessorIndex |-> g.maxProcessorIndex,
    cpuId |-> g.cpuId, threw |-> FALSE ]

\* a guard that looks at the record added last only
isDuplicateOfLast(cs, cpu) == cs # <<>> /\ cs[Len(cs)]._id = cpu._id

\* a guard that looks at the record added first only
isDuplicateOfFirst(cs, cpu) == cs # <<>> /\ cs[1]._id = cpu._id

\* `std::any_of(cpus.begin(), cpus.end(), [&](const CPU& c) { return c._id == cpu._id; })`
isDuplicate(cs, cpu) == \E i \in 1..Len(cs) : cs[i]._id = cpu._id

\* a guard that replaces the record of the same id by the later candidate
AddCpuReplacing(cs, cpu, fs) ==
  IF isDuplicate(cs, cpu)
  THEN [i \in 1..Len(cs) |-> IF cs[i]._id = cpu._id THEN cpu ELSE cs[i]]
  ELSE Append(cs, cpu)

\* the end of the loop body: skip a duplicate, else set the clock speeds and
\* push_back
AddCpu(cs, cpu, fs) ==
  IF isDuplicate(cs, cpu) THEN cs
  ELSE Append(cs, [cpu EXCEPT !._maxClockSpeed_MHz = getMaxClockSpeed_MHz(fs, cpu._id),
                              !._regularClockSpeed_MHz =
                                 getRegularClockSpeed_MHz(fs, cpu._id)])

\* `armCoreMap[armKey] = maxProcessorIndex;`
MapPut(map, key, value) ==
  [k \in DOMAIN map \cup {key} |-> IF k = key THEN value ELSE map[k]]

\* `auto armKey = std::make_tuple(implementer, variant, partHex);`
armKeyOf(st) == <<st.implementer, st.variant, st.partHex>>

\* the id of a new triple taken from cpuId as it was before the block
ArmCoreMapStepStale(g, st, armKey) ==
  IF ~st.isARM
  THEN [ cpu |-> st.cpu, armCoreMap |-> g.armCoreMap,
         maxProcessorIndex |-> st.maxProcessorIndex ]
  ELSE IF armKey \notin DOMAIN g.armCoreMap
  THEN [ cpu |-> [st.cpu EXCEPT !._id = g.cpuId],
         armCoreMap |-> MapPut(g.armCoreMap, armKey, 1),
         maxProcessorIndex |-> 1 ]
  ELSE [ cpu |-> IF g.cpus # <<>>
                 THEN [st.cpu EXCEPT !._id = g.cpus[Len(g.cpus)]._id]
                 ELSE st.cpu,
         armCoreMap |-> MapPut(g.armCoreMap, armKey, st.maxProcessorIndex),
         maxProcessorIndex |-> st.maxProcessorIndex ]

\* `if (isARM) { ... }` after the lines of a block: the candidate's id, the
\* core map and maxProcessorIndex
ArmCoreMapStep(g, st, armKey) ==
  IF ~st.isARM
  THEN [ cpu |-> st.cpu, armCoreMap |-> g.armCoreMap,
         maxProcessorIndex |-> st.maxProcessorIndex ]
  ELSE IF armKey \notin DOMAIN g.armCoreMap
  THEN [ cpu |-> [st.cpu EXCEPT !._id = st.cpuId],
         armCoreMap |-> MapPut(g.armCoreMap, armKey, 1),
         maxProcessorIndex |-> 1 ]
  ELSE [ cpu |-> IF g.cpus # <<>>
                 THEN [st.cpu EXCEPT !._id = g.cpus[Len(g.cpus)]._id]
                 ELSE st.cpu,
         armCoreMap |-> MapPut(g.armCoreMap, armKey, st.maxProcessorIndex),
         maxProcessorIndex |-> st.maxProcessorIndex ]

\* the end of the loop body for the candidate and map of ArmCoreMapStep; an
\* exception thrown by a line leaves the loop
BlockEnd(g, st, a, fs) ==
  IF st.threw
  THEN [g EXCEPT !.isARM = st.isARM, !.maxProcessorIndex = st.maxProcessorIndex,
                 !.cpuId = st.cpuId, !.threw = TRUE]
  ELSE [ cpus |-> AddCpu(g.cpus, a.cpu, fs),
         armCoreMap |-> a.armCoreMap, isARM |-> st.isARM,
         maxProcessorIndex |-> a.maxProcessorIndex,
         cpuId |-> st.cpuId, threw |-> FALSE ]

\* the loop body after its lines were read into st
AfterLines(g, st, fs) == BlockEnd(g, st, ArmCoreMapStep(g, st, armKeyOf(st)), fs)

\* the body of `for (const auto& block : cpuBlocks)`
ParseBlock(g, block, fs) ==
  AfterLines(g, ParseLines(BlockStart(g), split(block, <<"\n">>)), fs)

\* the reconciliation loop after the blocks: `if (isARM) { for (key, count) ... }`
Reconcile(g) ==
  IF ~g.isARM THEN g.cpus
  ELSE LET keys == SortedKeys(DOMAIN g.armCoreMap)
       IN [i \in 1..Len(g.cpus) |->
             IF i <= Len(keys)
             THEN [g.cpus[i] EXCEPT !._numPhysicalCores = g.armCoreMap[keys[i]],
                                    !._numLogicalCores = g.armCoreMap[keys[i]]]
             ELSE g.cpus[i]]

\* cpuBlocks after the erase/remove_if of the blank blocks
RECURSIVE RemoveBlank(_)
RemoveBlank(bs) ==
  IF bs = <<>> THEN <<>>
  ELSE IF IsBlankBlock(Head(bs)) THEN RemoveBlank(Tail(bs))
  ELSE <<Head(bs)>> \o RemoveBlank(Tail(bs))

cpuBlocksOf(text) == RemoveBlank(split(text, <<"\n", "\n">>))

\* the loop over the blocks, left at the first exception
RECURSIVE ParseBlocks(_, _, _)
ParseBlocks(g, blocks, fs) ==
  IF blocks = <<>> \/ g.threw THEN g
  ELSE ParseBlocks(ParseBlock(g, Head(blocks), fs), Tail(blocks), fs)

\* the state of getAllCPUs at the end of its loop over the file f
LoopEnd(f, fs) ==
  IF ~f.is_open \/ f.text = <<>> THEN StartState
  ELSE ParseBlocks(StartState, cpuBlocksOf(f.text), fs)

\* the records getAllCPUs returns for the file f, when it returns
getAllCPUs(f, fs) == Reconcile(LoopEnd(f, fs))

\* ------------------------------------------------------------------------
\* Contents of /proc/cpuinfo
\* ------------------------------------------------------------------------
\* "name\t: value"
Line(name, value) == name \o <<"\t", ":", " ">> \o value

RECURSIVE Join(_, _)
Join(parts, sep) ==
  IF parts = <<>> THEN <<>>
  ELSE IF Len(parts) = 1 THEN Head(parts)
  ELSE Head(parts) \o sep \o Join(Tail(parts), sep)

Block(lines) == Join(lines, <<"\n">>)

\* the kernel ends every block with an empty line
RECURSIVE FileOf(_)
FileOf(blocks) ==
  IF blocks = <<>> THEN <<>> ELSE Head(blocks) \o <<"\n", "\n">> \o FileOf(Tail(blocks))

kProcessor == <<"processor">>
kVendor == <<"vendor_id">>
kModel == <<"model", " ", "name">>
kPhysical == <<"physical", " ", "id">>
kSiblings == <<"siblings">>
kCores == <<"cpu", " ", "cores">>
kCache == <<"cache", " ", "size">>
kFlags == <<"flags">>
kImplementer == <<"CPU", " ", "implementer">>
kVariant == <<"CPU", " ", "variant">>
kPart == <<"CPU", " ", "part">>

\* x86 blocks
bX0 ==
  Block(<< Line(kProcessor, <<"0">>), Line(kVendor, <<"GenuineIntel">>),
           Line(kModel, <<"Xeon">>), Line(kPhysical, <<"0">>),
           Line(kSiblings, <<"4">>), Line(kCores, <<"2">>),
           Line(kCache, <<"4", "0", "9", "6", " ", "KB">>),
           Line(kFlags, <<"fpu", " ", "vme">>) >>)

bX0b ==
  Block(<< Line(kProcessor, <<"1">>), Line(kPhysical, <<"0">>),
           Line(kSiblings, <<"2">>), Line(kCores, <<"1">>) >>)

bX0n ==
  Block(<< Line(kProcessor, <<"1">>), Line(kVendor, <<"GenuineIntel">>),
           Line(kPhysical, <<"0">>), Line(kCores, <<"2">>) >>)

bX1 ==
  Block(<< Line(kProcessor, <<"2">>), Line(kPhysical, <<"1">>),
           Line(kSiblings, <<"8">>), Line(kCores, <<"4">>),
           Line(kCache, <<"5", "1", "2", " ", "KB">>) >>)

\* ARM blocks
bA53 ==
  Block(<< Line(kProcessor, <<"0">>), Line(kImplementer, <<"0", "x", "4", "1">>),
           Line(kVariant, <<"0", "x", "0">>), Line(kPart, <<"0", "x", "d", "0", "3">>) >>)

bA53b ==
  Block(<< Line(kProcessor, <<"1">>), Line(kImplementer, <<"0", "x", "4", "1">>),
           Line(kVariant, <<"0", "x", "0">>), Line(kPart, <<"0", "x", "d", "0", "3">>) >>)

bA72 ==
  Block(<< Line(kProcessor, <<"2">>), Line(kImplementer, <<"0", "x", "4", "1">>),
           Line(kVariant, <<"0", "x", "0">>), Line(kPart, <<"0", "x", "d", "0", "8">>) >>)

bKryo ==
  Block(<< Line(kProcessor, <<"3">>), Line(kModel, <<"ARMv8">>), Line(kImplementer, <<"0", "x", "5", "1">>),
           Line(kVariant, <<"0", "x", "1">>), Line(kPart, <<"0", "x", "8", "0", "0">>) >>)

MainBlocks == {bX0, bX0b, bX1, bA53, bA53b, bA72, bKryo}

\* blocks with a malformed or unusual line
bBadCache ==
  Block(<< Line(kPhysical, <<"1">>), Line(kCache, <<"KB">>), Line(kSiblings, <<"2">>) >>)

bBadSiblings ==
  Block(<< Line(kPhysical, <<"0">>), Line(kSiblings, <<"many">>), Line(kCores, <<"2">>) >>)

bBadCores ==
  Block(<< Line(kPhysical, <<"1">>), Line(kCores, <<>>), Line(kSiblings, <<"2">>) >>)

bBadProcessor ==
  Block(<< Line(kProcessor, <<"n", "/", "a">>), Line(kPhysical, <<"0">>) >>)

bBadPhysical ==
  Block(<< Line(kPhysical, <<"-">>), Line(kSiblings, <<"2">>) >>)

\* an implementer code outside ARM_IMPLEMENTERS
bUnknownVendor ==
  Block(<< Line(kProcessor, <<"4">>), Line(kImplementer, <<"0", "x", "9", "9">>),
           Line(kPart, <<"0", "x", "d", "0", "3">>) >>)

\* implementer 0x54, whose table of parts is empty
bTexas ==
  Block(<< Line(kProcessor, <<"5">>), Line(kImplementer, <<"0", "x", "5", "4">>),
           Line(kVariant, <<"0", "x", "0">>), Line(kPart, <<"0", "x", "d", "0", "3">>) >>)

\* a part outside the table of implementer 0x41
bUnknownPart ==
  Block(<< Line(kProcessor, <<"6">>), Line(kImplementer, <<"0", "x", "4", "1">>),
           Line(kVariant, <<"0", "x", "0">>), Line(kPart, <<"0", "x", "f", "f", "f">>) >>)

\* the part line above the implementer line
bPartFirst ==
  Block(<< Line(kProcessor, <<"7">>), Line(kPart, <<"0", "x", "d", "0", "3">>),
           Line(kImplementer, <<"0", "x", "4", "1">>), Line(kVariant, <<"0", "x", "0">>) >>)

\* no identity key, a value holding a colon, a line without a colon
bNoId ==
  Block(<< Line(kModel, <<"Xeon", ":", " ", "Gold">>), <<"bogus", " ", "line">> >>)

EdgeBlocks ==
  {bBadCache, bBadSiblings, bBadCores, bBadProcessor, bBadPhysical, bUnknownVendor,
   bTexas, bUnknownPart, bPartFirst, bNoId, bX0n}

\* sequences of at most n blocks of S
RECURSIVE SeqsUpTo(_, _)
SeqsUpTo(S, n) ==
  IF n = 0 THEN {<<>>}
  ELSE LET shorter == SeqsUpTo(S, n - 1)
       IN shorter \cup {Append(q, b) : q \in shorter, b \in S}

\* q with block b put in before position i
InsertAt(q, i, b) == SubSeq(q, 1, i - 1) \o <<b>> \o SubSeq(q, i, Len(q))

\* the blocks that stand around a block of EdgeBlocks
ContextBlocks == {bX0, bA53, bKryo}

\* the block lists of the model: lists of MainBlocks, and lists of
\* ContextBlocks with one of EdgeBlocks put in at any place
BlockLists ==
  SeqsUpTo(MainBlocks, MaxBlocks) \cup
  {InsertAt(qi[1], qi[2], b) :
     qi \in {x \in SeqsUpTo(ContextBlocks, MaxContext) \X (1..(MaxContext + 1)) :
               x[2] <= Len(x[1]) + 1},
     b \in EdgeBlocks}

\* /proc/cpuinfo cannot be opened (cpuinfo.is_open() is false)
NoFile == [is_open |-> FALSE, text |-> <<>>]

\* contents without any block: empty, white space only
BlankFiles == {<<>>, <<"\n">>, <<" ", "\n", "\n", "\t", "\n">>, <<"\n", "\n", "\n", "\n">>}

Files ==
  {[is_open |-> TRUE, text |-> t] : t \in {FileOf(q) : q \in BlockLists} \cup BlankFiles}
  \cup {NoFile}

\* cpufreq trees: files per core, files per policy group
SysfsPerCore ==
  { <<"/sys/devices/system/cpu/cpu0/cpufreq/scaling_max_freq", 3400000>>,
    <<"/sys/devices/system/cpu/cpu0/cpufreq/cpuinfo_max_freq", 3600000>>,
    <<"/sys/devices/system/cpu/cpu0/cpufreq/base_frequency", 2100000>>,
    <<"/sys/devices/system/cpu/cpu1/cpufreq/cpuinfo_max_freq", 3000999>>,
    <<"/sys/devices/system/cpu/cpu1/cpufreq/scaling_cur_freq", 1800000>>,
    <<"/sys/devices/system/cpu/cpu0/cpufreq/scaling_min_freq", 0 - 2000>>,
    <<"/sys/devices/system/cpu/cpu0/cpufreq/cpuinfo_min_freq", 800000>>,
    <<"/sys/devices/system/cpu/cpu1/cpufreq/cpuinfo_min_freq", 0>>,
    <<"/sys/devices/system/cpu/cpu0/topology/core_id", 0>>,
    <<"/sys/devices/system/cpu/cpu1/topology/core_id", 0>> }

SysfsPolicy ==
  { <<"/sys/devices/system/cpu/cpufreq/policy0/cpuinfo_max_freq", 1800000>>,
    <<"/sys/devices/system/cpu/cpufreq/policy0/scaling_cur_freq", 1200000>>,
    <<"/sys/devices/system/cpu/cpufreq/policy2/scaling_max_freq", 2400000>>,
    <<"/sys/devices/system/cpu/cpu2/cpufreq/cpuinfo_cur_freq", 600000>>,
    <<"/sys/devices/system/cpu/cpufreq/policy0/scaling_min_freq", 400000>>,
    <<"/sys/devices/system/cpu/cpufreq/policy2/cpuinfo_min_freq", 300999>>,
    <<"/sys/devices/system/cpu/cpu2/topology/core_id", 0>>,
    <<"/sys/devices/system/cpu/cpu3/topology/core_id", 1>> }

SysfsSet == {SysfsPerCore, SysfsPolicy, SysfsPerCore \cup SysfsPolicy}

\* ------------------------------------------------------------------------
\* Utilisation sampler
\* ------------------------------------------------------------------------
MaxCalls == 2

\* A double is a record: kind "fin" with the fraction n/d (d > 0), or "inf",
\* "ninf", "nan".
Fin(n, d) == [kind |-> "fin", n |-> n, d |-> d]

MinusOne == Fin(0 - 1, 1)

\* static_cast<double>(work) / static_cast<double>(total), IEEE 754
Divide(work, total) ==
  IF total = 0
  THEN IF work = 0 THEN [kind |-> "nan", n |-> 0, d |-> 1]
       ELSE IF work > 0 THEN [kind |-> "inf", n |-> 1, d |-> 1]
       ELSE [kind |-> "ninf", n |-> 0 - 1, d |-> 1]
  ELSE IF total > 0 THEN Fin(work, total) ELSE Fin(0 - work, 0 - total)

isnan(x) == x.kind = "nan"

\* x < k and x > k for a double x and an integer k (false for a NaN)
Less(x, k) == x.kind = "ninf" \/ (x.kind = "fin" /\ x.n < k * x.d)

Greater(x, k) == x.kind = "inf" \/ (x.kind = "fin" /\ x.n > k * x.d)

\* the ratio with numerator and denominator exchanged
DeltaRatioInverted(current, lastJ) ==
  Divide(current.all - lastJ.all, current.working - lastJ.working)

\* the ratio of the deltas between the snapshots current and lastJ
DeltaRatio(current, lastJ) ==
  Divide(current.working - lastJ.working, current.all - lastJ.all)

\* the range test without the test for a NaN
UtilisationResultNoNaN(utilization) ==
  IF Less(utilization, 0) \/ Greater(utilization, 1) THEN MinusOne ELSE utilization

\* the range test with the bound of threadUtilisation
UtilisationResultPercent(utilization) ==
  IF Less(utilization, 0) \/ Greater(utilization, 100) \/ isnan(utilization)
  THEN MinusOne ELSE utilization

\* `if (utilization < 0 || utilization > 1 || std::isnan(utilization)) return -1.0;`
UtilisationResult(utilization) ==
  IF Less(utilization, 0) \/ Greater(utilization, 1) \/ isnan(utilization)
  THEN MinusOne ELSE utilization

\* the range test without the test for a negative value
PercentageResultNoSign(percentage) ==
  IF Greater(percentage, 100) \/ isnan(percentage) THEN MinusOne ELSE percentage

\* `if (percentage < 0 || percentage > 100 || std::isnan(percentage)) return -1.0;`
PercentageResult(percentage) ==
  IF Less(percentage, 0) \/ Greater(percentage, 100) \/ isnan(percentage)
  THEN MinusOne ELSE percentage

\* init_jiffies that never sets the flag
init_jiffiesUnmarked(f) == [sleep |-> ~f, initialized |-> f]

\* CPU::init_jiffies on the flag f: whether it sleeps, and the flag afterwards
init_jiffies(f) ==
  IF ~f THEN [sleep |-> TRUE, initialized |-> TRUE]
  ELSE [sleep |-> FALSE, initialized |-> f]

\* counters of the cpu line of /proc/stat: increasing, equal, decreasing,
\* working above all
CpuJiffies == {[all |-> a, working |-> w] : a \in {100, 200}, w \in {40, 80, 250}}

\* counters of a cpuN line of /proc/stat
ThreadJiffies ==
  {[all |-> 100, working |-> 40], [all |-> 101, working |-> 250], [all |-> 102, working |-> 30]}

\* the members a default-constructed Jiffies can hold
DefaultJiffiesSet == {[all |-> 0, working |-> 0], [all |-> 0 - 1, working |-> 0 - 1]}

\* what filesystem::get_jiffies(index) can return: a snapshot of the counters
\* of line index of /proc/stat, or a default-constructed Jiffies (dflt) when
\* the read fails
get_jiffies(index, dflt) == (IF index = 0 THEN CpuJiffies ELSE ThreadJiffies) \cup {dflt}

\* /proc/cpuinfo of the hosts the sampler runs on: packages without a
\* siblings line and with siblings 0, 1, 2
bPackage(id, siblings) ==
  Block(<< Line(kPhysical, <<ToString(id)>>) >> \o
        (IF siblings = Unset THEN <<>> ELSE << Line(kSiblings, <<ToString(siblings)>>) >>))

SamplerFiles ==
  {[is_open |-> TRUE, text |-> FileOf(q)] :
     q \in {<<bPackage(0, n)>> : n \in {Unset, 0, 1, 2}} \cup
           {<<bPackage(0, 1), bPackage(1, 2)>>, <<bPackage(0, 2), bPackage(1, Unset)>>}}

\* largest thread_index passed to threadUtilisation
MaxThreadIndex == 1

\* procCpuinfo: the file /proc/cpuinfo; pc: where getAllCPUs stands ("start",
\* "loop", "done", "threw" when an exception left it); cpuBlocks: the blocks
\* not yet parsed; cpus, armCoreMap, isARM, maxProcessorIndex, cpuId: the
\* locals of getAllCPUs.
VARIABLES procCpuinfo, pc, cpuBlocks, cpus, armCoreMap, isARM, maxProcessorIndex, cpuId

parseVars == <<procCpuinfo, pc, cpuBlocks, cpus, armCoreMap, isARM, maxProcessorIndex, cpuId>>

\* _jiffies_initialized; jiffiesDefault: the default-constructed Jiffies;
\* last: `static Jiffies last` of currentUtilisation; threadLast: `static
\* std::vector<Jiffies> last` of threadUtilisation; outcome: how the latest
\* call ended ("none", "returned", "threw", "fault"); ret: the values it
\* returned; calls: the calls made; sleeps: executions of sleep_for.
\* Observations of the calls: entered (init_jiffies was called),
\* lastWasRead (last holds a snapshot read by get_jiffies), and for the
\* latest currentUtilisation call cur = [n: the number of such calls,
\* read: its snapshot, prev: the snapshot of the call before it, result,
\* baseWasRead: lastWasRead when it was called, on: the place in cpus of the
\* record it was called on, prevOn: that of the call before it]; callOf = [op: the method
\* called last, n: numLogicalCores of the record it was called on]; samples:
\* what the threadUtilisation calls made by the latest call did, in order,
\* each [index, current: the snapshot read, base: the value of
\* last[index] it was compared with].
VARIABLES _jiffies_initialized, jiffiesDefault, last, threadLast, outcome, ret, sleeps,
          calls, entered, lastWasRead, cur, callOf, samples

samplerVars ==
  <<_jiffies_initialized, jiffiesDefault, last, threadLast, outcome, ret, sleeps,
    calls, entered, lastWasRead, cur, callOf, samples>>

\* the threads that call one utilisation method at the same time
Callers == {1, 2}

\* Two threads in one utilisation method. raceMethod: the method both call;
\* tick: how often /proc/stat has changed; at[t]: the statement thread t
\* stands before ("idle" outside a call); callerCurrent, callerTotal,
\* callerWork: its locals current, total_over_period, work_over_period;
\* raceCalls: the calls begun. Observations: callerBase[t]: the
\* members of last that t subtracted; overlapped: a call began while another
\* was under way; completed = [n: calls returned, current / base / result of
\* the call that returned last, prev: the snapshot of the call that returned
\* before it]; maxUsed: the largest `all` of a snapshot read so far.
VARIABLES raceMethod, tick, at, callerCurrent, callerTotal, callerWork, raceCalls,
          callerBase, overlapped, completed, maxUsed

raceVars ==
  <<raceMethod, tick, at, callerCurrent, callerTotal, callerWork, raceCalls,
    callerBase, overlapped, completed, maxUsed>>

vars == <<sysfs, parseVars, samplerVars, raceVars>>

\* ------------------------------------------------------------------------
\* getAllCPUs as a state machine
\* ------------------------------------------------------------------------
\* the declaration of _jiffies_initialized: one flag for the whole process
\* (not one per CPU record), false until the first delay
JiffiesInitializedAtStart == FALSE

\* the sampler before its first call, dflt being the default-constructed
\* Jiffies
SamplerInit(dflt) ==
  /\ _jiffies_initialized = JiffiesInitializedAtStart
  /\ jiffiesDefault = dflt
  /\ last = jiffiesDefault
  /\ threadLast = <<>>
  /\ outcome = "none"
  /\ ret = <<>>
  /\ sleeps = 0
  /\ calls = 0
  /\ entered = FALSE
  /\ lastWasRead = FALSE
  /\ cur = [n |-> 0, read |-> jiffiesDefault, prev |-> jiffiesDefault,
            result |-> MinusOne, baseWasRead |-> FALSE, on |-> 0, prevOn |-> 0]
  /\ callOf = [op |-> "none", n |-> 0]
  /\ samples = <<>>

\* no thread inside method m; last holds the default-constructed Jiffies
RaceInit(m) ==
  /\ raceMethod = m
  /\ tick = 0
  /\ at = [t \in Callers |-> "idle"]
  /\ callerCurrent = [t \in Callers |-> jiffiesDefault]
  /\ callerTotal = [t \in Callers |-> 0]
  /\ callerWork = [t \in Callers |-> 0]
  /\ raceCalls = 0
  /\ callerBase = [t \in Callers |-> jiffiesDefault]
  /\ overlapped = FALSE
  /\ completed = [n |-> 0, current |-> jiffiesDefault, base |-> jiffiesDefault,
                  prev |-> jiffiesDefault, result |-> MinusOne]
  /\ maxUsed = 0

Init ==
  /\ SamplerInit([all |-> 0, working |-> 0])
  /\ RaceInit("currentUtilisation")
  /\ sysfs \in SysfsSet
  /\ procCpuinfo \in Files
  /\ pc = "start"
  /\ cpuBlocks = <<>>
  /\ cpus = StartState.cpus
  /\ armCoreMap = StartState.armCoreMap
  /\ isARM = StartState.isARM
  /\ maxProcessorIndex = StartState.maxProcessorIndex
  /\ cpuId = StartState.cpuId

\* getAllCPUs up to the loop: open, read, split, drop the blank blocks
ReadFile ==
  /\ pc = "start"
  /\ IF \/ ~procCpuinfo.is_open
        \/ procCpuinfo.text = <<>>
        \/ cpuBlocksOf(procCpuinfo.text) = <<>>
     THEN pc' = "done" /\ cpuBlocks' = <<>>
     ELSE pc' = "loop" /\ cpuBlocks' = cpuBlocksOf(procCpuinfo.text)
  /\ UNCHANGED <<sysfs, procCpuinfo, cpus, armCoreMap, isARM, maxProcessorIndex, cpuId, samplerVars, raceVars>>

\* one iteration of the loop over cpuBlocks
Locals ==
  [ cpus |-> cpus, armCoreMap |-> armCoreMap, isARM |-> isARM,
    maxProcessorIndex |-> maxProcessorIndex, cpuId |-> cpuId, threw |-> FALSE ]

\* the locals after one pass of the loop body
SetLocals(g) ==
  /\ cpus' = g.cpus
  /\ armCoreMap' = g.armCoreMap
  /\ isARM' = g.isARM
  /\ maxProcessorIndex' = g.maxProcessorIndex
  /\ cpuId' = g.cpuId
  /\ pc' = IF g.threw THEN "threw" ELSE "loop"

NextBlock ==
  /\ pc = "loop"
  /\ cpuBlocks # <<>>
  /\ SetLocals(ParseBlock(Locals, Head(cpuBlocks), sysfs))
  /\ cpuBlocks' = Tail(cpuBlocks)
  /\ UNCHANGED <<sysfs, procCpuinfo, samplerVars, raceVars>>

\* after the loop: the reconciliation pass and the return
Return ==
  /\ pc = "loop"
  /\ cpuBlocks = <<>>
  /\ cpus' = Reconcile(Locals)
  /\ pc' = "done"
  /\ UNCHANGED <<sysfs, procCpuinfo, cpuBlocks, armCoreMap, isARM, maxProcessorIndex, cpuId, samplerVars, raceVars>>

Next == ReadFile \/ NextBlock \/ Return

Spec == Init /\ [][Next]_vars

TypeOK == pc \in {"start", "loop", "done", "threw"}

\* ------------------------------------------------------------------------
\* The sampler as a state machine: calls on the records of one getAllCPUs()
\* ------------------------------------------------------------------------
\* the state in which getAllCPUs returned, g being the locals at the end of
\* its loop
Returned(g) ==
  /\ cpus = Reconcile(g)
  /\ armCoreMap = g.armCoreMap
  /\ isARM = g.isARM
  /\ maxProcessorIndex = g.maxProcessorIndex
  /\ cpuId = g.cpuId

InitSampler ==
  /\ \E dflt \in DefaultJiffiesSet : SamplerInit(dflt)
  /\ RaceInit("currentUtilisation")
  /\ sysfs = SysfsPerCore
  /\ procCpuinfo \in SamplerFiles
  /\ pc = "done"
  /\ cpuBlocks = <<>>
  /\ Returned(LoopEnd(procCpuinfo, sysfs))

\* the process runs on unless it was ended by a fault
Running == pc = "done" /\ outcome # "fault" /\ calls < MaxCalls

\* a line of /proc/stat chosen by the id of the record
aggregateLineOfId(cpu) == cpu._id + 1

\* the argument of `filesystem::get_jiffies(0)`: the aggregate line, whatever
\* the record
aggregateLine(cpu) == 0

\* a store that keeps the old snapshot when the call returns the sentinel
lastAfterUnlessSentinel(lastJ, current) ==
  IF UtilisationResult(DeltaRatio(current, lastJ)) = MinusOne THEN lastJ ELSE current

\* `last = current;`
lastAfter(lastJ, current) == current

\* CPU::currentUtilisation on the record cpus[c]
currentUtilisation(c) ==
  /\ Running
  /\ \E current \in get_jiffies(aggregateLine(cpus[c]), jiffiesDefault) :
       LET ij == init_jiffies(_jiffies_initialized)
           utilization == DeltaRatio(current, last)
       IN /\ _jiffies_initialized' = ij.initialized
          /\ sleeps' = sleeps + (IF ij.sleep THEN 1 ELSE 0)
          /\ last' = lastAfter(last, current)
          /\ ret' = <<UtilisationResult(utilization)>>
          /\ cur' = [n |-> IF cur.n < 2 THEN cur.n + 1 ELSE 2, read |-> current,
                     prev |-> cur.read, result |-> UtilisationResult(utilization),
                     baseWasRead |-> lastWasRead, on |-> c, prevOn |-> cur.on]
  /\ outcome' = "returned"
  /\ entered' = TRUE
  /\ lastWasRead' = TRUE
  /\ calls' = calls + 1
  /\ callOf' = [op |-> "currentUtilisation", n |-> cpus[c]._numLogicalCores]
  /\ samples' = <<>>
  /\ UNCHANGED <<raceVars, sysfs, parseVars, jiffiesDefault, threadLast>>

\* what an access to last[thread_index] outside the vector can do: end the
\* process, or read whatever the memory holds
UBOutcomes(dflt) ==
  {[fault |-> TRUE, mem |-> dflt]} \cup
  {[fault |-> FALSE, mem |-> j] : j \in ThreadJiffies \cup {dflt}}

\* the size of the vector last after `if (last.empty()) last.resize(n)`
SizeAfterResize(vec, n) == IF vec = <<>> THEN n ELSE Len(vec)

\* CPU::threadUtilisation(thread_index) of a record with n logical cores, on
\* the sampler state s = [initialized, sleeps, threadLast, outcome, value,
\* samples];
\* current is the snapshot read, ub the effect of undefined behaviour
ThreadCall(s, n, thread_index, current, dflt, ub) ==
  LET ij == init_jiffies(s.initialized)
      s1 == [s EXCEPT !.initialized = ij.initialized,
                      !.sleeps = @ + (IF ij.sleep THEN 1 ELSE 0)]
  IN IF SizeAfterResize(s.threadLast, n) < 0
     THEN [s1 EXCEPT !.outcome = "threw"]   \* last.resize(size_t(n)): std::length_error
     ELSE LET vec == IF s.threadLast = <<>> THEN [i \in 1..n |-> dflt] ELSE s.threadLast
          IN IF thread_index + 1 \in 1..Len(vec)
             THEN [s1 EXCEPT !.threadLast = [vec EXCEPT ![thread_index + 1] = current],
                             !.outcome = "returned",
                             !.value = PercentageResult(
                                         DeltaRatio(current, vec[thread_index + 1])),
                             !.samples = Append(@, [index |-> thread_index,
                                                    current |-> current,
                                                    base |-> vec[thread_index + 1]])]
             ELSE IF ub.fault
             THEN [s1 EXCEPT !.threadLast = vec, !.outcome = "fault"]
             ELSE [s1 EXCEPT !.threadLast = vec, !.outcome = "returned",
                             !.value = PercentageResult(DeltaRatio(current, ub.mem)),
                             !.samples = Append(@, [index |-> thread_index,
                                                    current |-> current,
                                                    base |-> ub.mem])]

SamplerState ==
  [ initialized |-> _jiffies_initialized, sleeps |-> sleeps, threadLast |-> threadLast,
    outcome |-> "returned", value |-> MinusOne, samples |-> <<>> ]

\* the effects to consider for a call that reaches indexes up to top
UBChoices(vec, n, top, dflt) ==
  IF top >= SizeAfterResize(vec, n) /\ SizeAfterResize(vec, n) >= 0
  THEN UBOutcomes(dflt) ELSE {[fault |-> TRUE, mem |-> dflt]}

\* CPU::threadUtilisation(thread_index) on the record cpus[c]
threadUtilisation(c, thread_index) ==
  /\ Running
  /\ \E current \in get_jiffies(thread_index + 1, jiffiesDefault),
        ub \in UBChoices(threadLast, cpus[c]._numLogicalCores, thread_index, jiffiesDefault) :
       LET s == ThreadCall(SamplerState, cpus[c]._numLogicalCores, thread_index,
                           current, jiffiesDefault, ub)
       IN /\ _jiffies_initialized' = s.initialized
          /\ sleeps' = s.sleeps
          /\ threadLast' = s.threadLast
          /\ outcome' = s.outcome
          /\ ret' = IF s.outcome = "returned" THEN <<s.value>> ELSE <<>>
          /\ samples' = s.samples
  /\ entered' = TRUE
  /\ calls' = calls + 1
  /\ callOf' = [op |-> "threadUtilisation", n |-> cpus[c]._numLogicalCores]
  /\ UNCHANGED <<raceVars, sysfs, parseVars, jiffiesDefault, last, lastWasRead, cur>>

\* a loop that stops one index early and leaves the last entry as constructed
RECURSIVE ThreadsLoopShort(_, _, _, _, _, _, _)
ThreadsLoopShort(s, n, thread_idx, snaps, dflt, ub, acc) ==
  IF thread_idx >= n - 1
  THEN [state |-> s, thread_utility |-> IF n > 0 THEN Append(acc, Fin(0, 1)) ELSE acc]
  ELSE LET s2 == ThreadCall(s, n, thread_idx, snaps[thread_idx + 1], dflt, ub)
       IN IF s2.outcome # "returned" THEN [state |-> s2, thread_utility |-> <<>>]
          ELSE ThreadsLoopShort(s2, n, thread_idx + 1, snaps, dflt, ub,
                                Append(acc, s2.value))

\* the loop of threadsUtilisation from thread_idx on; snaps[i + 1] is the
\* snapshot read for thread i, acc the entries of thread_utility set so far
RECURSIVE ThreadsLoop(_, _, _, _, _, _, _)
ThreadsLoop(s, n, thread_idx, snaps, dflt, ub, acc) ==
  IF thread_idx >= n THEN [state |-> s, thread_utility |-> acc]
  ELSE LET s2 == ThreadCall(s, n, thread_idx, snaps[thread_idx + 1], dflt, ub)
       IN IF s2.outcome # "returned" THEN [state |-> s2, thread_utility |-> <<>>]
          ELSE ThreadsLoop(s2, n, thread_idx + 1, snaps, dflt, ub, Append(acc, s2.value))

\* CPU::threadsUtilisation on the record cpus[c]
threadsUtilisation(c) ==
  /\ Running
  /\ LET n == cpus[c]._numLogicalCores
     IN IF n < 0
        THEN \* std::vector<double> thread_utility(size_t(n)): std::length_error
             /\ outcome' = "threw"
             /\ ret' = <<>>
             /\ samples' = <<>>
             /\ UNCHANGED <<_jiffies_initialized, sleeps, threadLast, entered>>
        ELSE \E snaps \in [1..n -> get_jiffies(1, jiffiesDefault)],
                ub \in UBChoices(threadLast, n, n - 1, jiffiesDefault) :
               LET r == ThreadsLoop(SamplerState, n, 0, snaps, jiffiesDefault, ub, <<>>)
               IN /\ _jiffies_initialized' = r.state.initialized
                  /\ sleeps' = r.state.sleeps
                  /\ threadLast' = r.state.threadLast
                  /\ outcome' = r.state.outcome
                  /\ ret' = r.thread_utility
                  /\ samples' = r.state.samples
                  /\ entered' = (entered \/ n > 0)
  /\ calls' = calls + 1
  /\ callOf' = [op |-> "threadsUtilisation", n |-> cpus[c]._numLogicalCores]
  /\ UNCHANGED <<raceVars, sysfs, parseVars, jiffiesDefault, last, lastWasRead, cur>>

\* int64_t division, which rounds toward zero
DivTowardZero(a, b) == IF a >= 0 THEN a \div b ELSE 0 - ((0 - a) \div b)

\* the path of the current frequency of a core
freqPath(core_id) ==
  "/sys/devices/system/cpu/cpu" \o ToString(core_id) \o "/cpufreq/scaling_cur_freq"

\* the loop of currentClockSpeed_MHz from core_id on
RECURSIVE currentClockSpeedFrom(_, _, _)
currentClockSpeedFrom(fs, core_id, n) ==
  IF core_id >= n THEN <<>>
  ELSE LET frequency_Hz == get_specs_by_file_path(fs, freqPath(core_id))
       IN (IF frequency_Hz = 0 - 1 THEN <<>> ELSE <<DivTowardZero(frequency_Hz, 1000)>>)
          \o currentClockSpeedFrom(fs, core_id + 1, n)

currentClockSpeed_MHz(cpu, fs) ==
  IF cpu._numLogicalCores <= 0 THEN <<>>
  ELSE currentClockSpeedFrom(fs, 0, cpu._numLogicalCores)

\* CPU::currentClockSpeed_MHz on the record cpus[c]
currentClockSpeed(c) ==
  /\ Running
  /\ ret' = currentClockSpeed_MHz(cpus[c], sysfs)
  /\ outcome' = "returned"
  /\ calls' = calls + 1
  /\ callOf' = [op |-> "currentClockSpeed_MHz", n |-> cpus[c]._numLogicalCores]
  /\ samples' = <<>>
  /\ UNCHANGED <<raceVars, sysfs, parseVars, _jiffies_initialized, jiffiesDefault, last,
                 threadLast, sleeps, entered, lastWasRead, cur>>

NextSampler ==
  \E c \in 1..Len(cpus) :
    \/ currentUtilisation(c)
    \/ currentClockSpeed(c)
    \/ \E thread_index \in 0..MaxThreadIndex : threadUtilisation(c, thread_index)
    \/ threadsUtilisation(c)

SpecSampler == InitSampler /\ [][NextSampler]_vars

\* ------------------------------------------------------------------------
\* Two threads in one utilisation method, statement by statement
\* ------------------------------------------------------------------------
\* calls the threads make together
MaxRaceCalls == 3

\* changes of /proc/stat during the calls
MaxTicks == 2

\* the counters of the sampled line of /proc/stat after k changes
ProcStat(k) == [all |-> 100 * (k + 1), working |-> 40 * (k + 1) + 10 * (k % 2)]

\* `current.all - last.all`
total_over_period(current, lastJ) == current.all - lastJ.all

\* the difference taken against the wrong member of last
work_over_periodOfAll(current, lastJ) == current.working - lastJ.all

\* `current.working - last.working`
work_over_period(current, lastJ) == current.working - lastJ.working

\* the range test of the method m
RangeTest(m, ratio) ==
  IF m = "currentUtilisation" THEN UtilisationResult(ratio) ELSE PercentageResult(ratio)

InitRace ==
  /\ \E dflt \in DefaultJiffiesSet : SamplerInit(dflt)
  /\ \E m \in {"currentUtilisation", "threadUtilisation"} : RaceInit(m)
  /\ sysfs = SysfsPerCore
  /\ procCpuinfo = [is_open |-> TRUE, text |-> FileOf(<<bPackage(0, 1)>>)]
  /\ pc = "done"
  /\ cpuBlocks = <<>>
  /\ Returned(LoopEnd(procCpuinfo, sysfs))

\* what the steps of a call leave alone
RaceFrame == UNCHANGED <<sysfs, parseVars, jiffiesDefault, threadLast, outcome, ret, calls,
                         entered, lastWasRead, cur, callOf, samples, raceMethod>>

\* thread t enters the method
Call(t) ==
  /\ at[t] = "idle"
  /\ raceCalls < MaxRaceCalls
  /\ at' = [at EXCEPT ![t] = "check"]
  /\ raceCalls' = raceCalls + 1
  /\ overlapped' = (overlapped \/ \E u \in Callers \ {t} : at[u] # "idle")
  /\ RaceFrame
  /\ UNCHANGED <<_jiffies_initialized, last, sleeps, tick, callerCurrent, callerTotal,
                 callerWork, callerBase, completed, maxUsed>>

\* init_jiffies: `if (!_jiffies_initialized)`
CheckFlag(t) ==
  /\ at[t] = "check"
  /\ at' = [at EXCEPT ![t] = IF init_jiffies(_jiffies_initialized).sleep
                             THEN "sleep" ELSE "read"]
  /\ RaceFrame
  /\ UNCHANGED <<_jiffies_initialized, last, sleeps, tick, callerCurrent, callerTotal,
                 callerWork, raceCalls, callerBase, overlapped, completed, maxUsed>>

\* init_jiffies: the sleep is over, `_jiffies_initialized = true`
SleepOver(t) ==
  /\ at[t] = "sleep"
  /\ sleeps' = sleeps + 1
  /\ _jiffies_initialized' = TRUE
  /\ at' = [at EXCEPT ![t] = "read"]
  /\ RaceFrame
  /\ UNCHANGED <<last, tick, callerCurrent, callerTotal, callerWork, raceCalls,
                 callerBase, overlapped, completed, maxUsed>>

\* `Jiffies current = filesystem::get_jiffies(...)`
ReadCurrent(t) ==
  /\ at[t] = "read"
  /\ callerCurrent' = [callerCurrent EXCEPT ![t] = ProcStat(tick)]
  /\ maxUsed' = IF ProcStat(tick).all > maxUsed THEN ProcStat(tick).all ELSE maxUsed
  /\ at' = [at EXCEPT ![t] = "total"]
  /\ RaceFrame
  /\ UNCHANGED <<_jiffies_initialized, last, sleeps, tick, callerTotal, callerWork,
                 raceCalls, callerBase, overlapped, completed>>

\* `auto total_over_period = ...`
TotalOverPeriod(t) ==
  /\ at[t] = "total"
  /\ callerTotal' = [callerTotal EXCEPT ![t] = total_over_period(callerCurrent[t], last)]
  /\ callerBase' = [callerBase EXCEPT ![t].all = last.all]
  /\ at' = [at EXCEPT ![t] = "work"]
  /\ RaceFrame
  /\ UNCHANGED <<_jiffies_initialized, last, sleeps, tick, callerCurrent, callerWork,
                 raceCalls, overlapped, completed, maxUsed>>

\* `auto work_over_period = ...`
WorkOverPeriod(t) ==
  /\ at[t] = "work"
  /\ callerWork' = [callerWork EXCEPT ![t] = work_over_period(callerCurrent[t], last)]
  /\ callerBase' = [callerBase EXCEPT ![t].working = last.working]
  /\ at' = [at EXCEPT ![t] = "storeAll"]
  /\ RaceFrame
  /\ UNCHANGED <<_jiffies_initialized, last, sleeps, tick, callerCurrent, callerTotal,
                 raceCalls, overlapped, completed, maxUsed>>

\* `last = current`, the member all
StoreAll(t) ==
  /\ at[t] = "storeAll"
  /\ last' = [last EXCEPT !.all = callerCurrent[t].all]
  /\ at' = [at EXCEPT ![t] = "storeWorking"]
  /\ RaceFrame
  /\ UNCHANGED <<_jiffies_initialized, sleeps, tick, callerCurrent, callerTotal, callerWork,
                 raceCalls, callerBase, overlapped, completed, maxUsed>>

\* `last = current`, the member working
StoreWorking(t) ==
  /\ at[t] = "storeWorking"
  /\ last' = [last EXCEPT !.working = callerCurrent[t].working]
  /\ at' = [at EXCEPT ![t] = "return"]
  /\ RaceFrame
  /\ UNCHANGED <<_jiffies_initialized, sleeps, tick, callerCurrent, callerTotal, callerWork,
                 raceCalls, callerBase, overlapped, completed, maxUsed>>

\* the division, the range test and the return
ReturnRatio(t) ==
  /\ at[t] = "return"
  /\ completed' = [n |-> completed.n + 1, current |-> callerCurrent[t],
                   base |-> callerBase[t], prev |-> completed.current,
                   result |-> RangeTest(raceMethod, Divide(callerWork[t], callerTotal[t]))]
  /\ at' = [at EXCEPT ![t] = "idle"]
  /\ RaceFrame
  /\ UNCHANGED <<_jiffies_initialized, last, sleeps, tick, callerCurrent, callerTotal,
                 callerWork, raceCalls, callerBase, overlapped, maxUsed>>

\* the kernel updates /proc/stat
Tick ==
  /\ tick < MaxTicks
  /\ tick' = tick + 1
  /\ RaceFrame
  /\ UNCHANGED <<_jiffies_initialized, last, sleeps, at, callerCurrent, callerTotal,
                 callerWork, raceCalls, callerBase, overlapped, completed, maxUsed>>

NextRace ==
  \/ Tick
  \/ \E t \in Callers :
       \/ Call(t)
       \/ CheckFlag(t)
       \/ SleepOver(t)
       \/ ReadCurrent(t)
       \/ TotalOverPeriod(t)
       \/ WorkOverPeriod(t)
       \/ StoreAll(t)
       \/ StoreWorking(t)
       \/ ReturnRatio(t)

SpecRace == InitRace /\ [][NextRace]_vars

\* ------------------------------------------------------------------------
\* Properties of getAllCPUs (specification Spec)
\* ------------------------------------------------------------------------
\* the non-blank blocks of /proc/cpuinfo
InputBlocks == IF procCpuinfo.is_open THEN cpuBlocksOf(procCpuinfo.text) ELSE <<>>

\* C1: no two records of cpus have the same id, in the list accumulated after
\* every block and in the list returned
NoDuplicateIds ==
  \A i, j \in 1..Len(cpus) : i # j => cpus[i]._id # cpus[j]._id

\* a result of two records from an input in which an identity is repeated
NoDuplicateIdsWitness ==
  pc = "done" /\ Len(cpus) >= 2 /\ Len(InputBlocks) > Len(cpus)

\* the text holds white space only
AllWhitespace(text) == \A i \in 1..Len(text) : text[i] \in {" ", "\n", "\r", "\t"}

\* C2: when /proc/cpuinfo cannot be opened, is empty or holds no block with a
\* character other than white space, getAllCPUs returns the empty list
\* without entering its loop and without an exception
EmptySourceEmptyResult ==
  (~procCpuinfo.is_open \/ AllWhitespace(procCpuinfo.text))
    => (pc \in {"start", "done"} /\ cpus = <<>>)

\* getAllCPUs has returned on a file of white space only
EmptySourceWitness ==
  /\ pc = "done"
  /\ procCpuinfo.is_open
  /\ procCpuinfo.text # <<>>
  /\ AllWhitespace(procCpuinfo.text)

\* the lines of a block
LinesOf(block) == split(block, <<"\n">>)

\* the name of a line: the stripped text before its first colon ("" for a
\* line without a colon)
FirstColonName(line) ==
  IF Find(line, <<":">>) = 0 THEN ""
  ELSE Str(strip(SubSeq(line, 1, Find(line, <<":">>) - 1)))

\* the value of a line: the stripped text after its first colon
FirstColonValue(line) ==
  IF Find(line, <<":">>) = 0 THEN <<>>
  ELSE strip(SubSeq(line, Find(line, <<":">>) + 1, Len(line)))

\* the names of the lines of the block, in order
RECURSIVE NamesOf(_)
NamesOf(lines) ==
  IF lines = <<>> THEN <<>> ELSE <<FirstColonName(Head(lines))>> \o NamesOf(Tail(lines))

LineNames(block) == NamesOf(LinesOf(block))

\* some line of that name is among names
InNames(names, name) == \E i \in 1..Len(names) : names[i] = name

\* the block has a line of that name
HasLine(block, name) == InNames(LineNames(block), name)

\* the fields the lines of one block give, read on their own
BlockFields(block) == ParseLines(BlockStart(StartState), split(block, <<"\n">>))

\* an x86 block of package p whose numeric values all parse
PackageFields(fields, p) == ~fields.threw /\ fields.cpu._id = p

IsPackageBlock(block, p) ==
  /\ HasLine(block, "physical id")
  /\ ~HasLine(block, "CPU implementer")
  /\ PackageFields(BlockFields(block), p)

PhysicalIds == {0, 1}

\* every block of the input is an x86 block of package p
SamePackageBlocks(blocks, p) ==
  /\ blocks # <<>>
  /\ \A i \in 1..Len(blocks) : IsPackageBlock(blocks[i], p)

SamePackageInput(p) == SamePackageBlocks(InputBlocks, p)

\* C3 as stated: one record with id p, whose numLogicalCores is the siblings
\* value of a block that has a siblings line, whichever block that is
SiblingsFromAnyBlock ==
  \A p \in PhysicalIds :
    (pc = "done" /\ SamePackageInput(p)) =>
      /\ Len(cpus) = 1
      /\ cpus[1]._id = p
      /\ (\E i \in 1..Len(InputBlocks) : HasLine(InputBlocks[i], "siblings")) =>
           \E i \in 1..Len(InputBlocks) :
             /\ HasLine(InputBlocks[i], "siblings")
             /\ cpus[1]._numLogicalCores = BlockFields(InputBlocks[i]).cpu._numLogicalCores

\* C3 amended: one record with id p, whose numLogicalCores is the siblings
\* value of the first block, unset when the first block has no siblings line
SiblingsFromFirstBlock ==
  \A p \in PhysicalIds :
    (pc = "done" /\ SamePackageInput(p)) =>
      /\ Len(cpus) = 1
      /\ cpus[1]._id = p
      /\ cpus[1]._numLogicalCores = BlockFields(InputBlocks[1]).cpu._numLogicalCores

\* two blocks of package 0, the siblings line in the second only
SiblingsFromFirstBlockWitness ==
  /\ pc = "done"
  /\ SamePackageInput(0)
  /\ Len(InputBlocks) >= 2
  /\ ~HasLine(InputBlocks[1], "siblings")
  /\ HasLine(InputBlocks[2], "siblings")

\* C9: no exception and no fault leaves getAllCPUs or a call of the sampler
NoExceptionEscapes == pc # "threw" /\ outcome \notin {"threw", "fault"}

\* the line has one of the numeric keys and a value that does not parse
IsMalformedLine(line) ==
  LET kv == split(line, <<":">>)
      name == Str(strip(kv[1]))
      value == strip(kv[2])
  IN /\ Len(kv) >= 2
     /\ \/ name \in {"processor", "siblings", "cpu cores", "physical id"} /\ stoi(value).threw
        \/ name = "cache size" /\ stol(split(value, <<" ">>)[1]).threw

RECURSIVE DropMalformed(_)
DropMalformed(lines) ==
  IF lines = <<>> THEN <<>>
  ELSE IF IsMalformedLine(Head(lines)) THEN DropMalformed(Tail(lines))
  ELSE <<Head(lines)>> \o DropMalformed(Tail(lines))

\* the file f without its malformed lines
WithoutMalformed(f) ==
  LET bs == split(f.text, <<"\n", "\n">>)
  IN [f EXCEPT !.text =
        Join([i \in 1..Len(bs) |-> Join(DropMalformed(split(bs[i], <<"\n">>)), <<"\n">>)],
             <<"\n", "\n">>)]

\* C10: a malformed numeric line leaves its field unset and nothing else
\* changes: getAllCPUs returns what it returns for the file without the
\* malformed lines
MalformedFieldSkipped ==
  pc \in {"done", "threw"} =>
    (pc = "done" /\ cpus = getAllCPUs(WithoutMalformed(procCpuinfo), sysfs))

\* ------------------------------------------------------------------------
\* Properties of the sampler (specification SpecSampler)
\* ------------------------------------------------------------------------
\* the deltas between the snapshot of the latest currentUtilisation call and
\* the snapshot read by the call before it
AllDelta == cur.read.all - cur.prev.all

WorkingDelta == cur.read.working - cur.prev.working

\* C4: from the second call on, with deltas 0 <= w <= a and a > 0 between the
\* snapshots of this call and of the call before, currentUtilisation returns
\* w / a; deltas 40 and 100 give 0.4
ReturnsDeltaRatio ==
  (cur.n >= 2 /\ AllDelta > 0 /\ 0 <= WorkingDelta /\ WorkingDelta <= AllDelta) =>
    /\ cur.result.kind = "fin"
    /\ cur.result.n * AllDelta = WorkingDelta * cur.result.d
    /\ (AllDelta = 100 /\ WorkingDelta = 40) => cur.result.n * 5 = 2 * cur.result.d

\* a call after which all has grown by 100 and working by 40
ReturnsDeltaRatioWitness ==
  cur.n >= 2 /\ AllDelta = 100 /\ WorkingDelta = 40 /\ outcome = "returned"

\* C5: when the snapshot read has the all counter of the stored one,
\* currentUtilisation returns -1.0 whatever the working counters are
ZeroWindowSentinel ==
  /\ (cur.n >= 2 /\ AllDelta = 0) => cur.result = MinusOne
  /\ (cur.n = 1 /\ cur.read.all = jiffiesDefault.all) => cur.result = MinusOne

\* a window of width zero in which working has grown
ZeroWindowWitness == cur.n >= 2 /\ AllDelta = 0 /\ WorkingDelta > 0

\* C6: every value currentUtilisation returns is in [0, 1] or is -1.0
ResultInUnitRange ==
  cur.n >= 1 =>
    \/ cur.result = MinusOne
    \/ cur.result.kind = "fin" /\ 0 <= cur.result.n /\ cur.result.n <= cur.result.d

\* a value strictly between 0 and 1 returned after counters that went back
ResultInUnitRangeWitness ==
  /\ cur.n >= 2
  /\ AllDelta < 0
  /\ cur.result.kind = "fin"
  /\ 0 < cur.result.n
  /\ cur.result.n < cur.result.d

\* C7: the value of the first currentUtilisation call is computed against a
\* baseline that was read from the counters, before the delay
FirstCallHasReadBaseline == cur.n = 1 => cur.baseWasRead

IndexIn(names, name) ==
  IF \E i \in 1..Len(names) : names[i] = name
  THEN CHOOSE i \in 1..Len(names) :
         names[i] = name /\ \A j \in 1..(i - 1) : names[j] # name
  ELSE 0

\* the place of the first line of that name in the block, 0 when it has none
LineIndex(block, name) == IndexIn(LineNames(block), name)

\* the value of the first line of that name
ValueOfLine(block, name) == FirstColonValue(LinesOf(block)[LineIndex(block, name)])

\* the implementer code of the block, written with its 0x prefix
ImplementerCode(block) ==
  LET v == ValueOfLine(block, "CPU implementer")
  IN IF HasHexPrefix(v) THEN Str(v) ELSE "0x" \o Str(v)

\* the entry of the tables for the codes of the block, "Unknown Model" when
\* the tables have none
TableEntry(code, part) ==
  LET hits == {m \in UNION {e[2] : e \in {x \in arm_models : x[1] = code}} : m[1] = part}
  IN IF hits = {} THEN "Unknown Model" ELSE (CHOOSE m \in hits : TRUE)[2]

TableModelName(block) ==
  TableEntry(ImplementerCode(block), Str(ValueOfLine(block, "CPU part")))

\* the resolution of single codes: a pair of the tables, every part under
\* 0x54, an implementer outside the tables
TableEntriesResolved ==
  /\ Cardinality(arm_models) = 12
  /\ getARMModelName("0x41", "0xd03") = "Cortex-A53"
  /\ getARMModelName("0x41", "0xfff") = "Unknown Model"
  /\ \A e \in arm_models :
       \A m \in e[2] :
         /\ getARMModelName(e[1], m[1]) = m[2]
         /\ getARMModelName("0x54", m[1]) = "Unknown Model"
         /\ getARMModelName("0x99", m[1]) = "Unknown Model"

\* the tables never change: they are gone through once, on the step taken
\* when /proc/cpuinfo cannot be opened
TableAnchors == (pc = "start" /\ ~procCpuinfo.is_open) => TableEntriesResolved

\* the block at the head of cpuBlocks is parsed and gives a new record
AddsRecord == pc = "loop" /\ cpuBlocks # <<>> /\ Len(cpus') = Len(cpus) + 1

\* no step changes the model name of a record already in cpus
ModelNamesKept ==
  \A i \in 1..Len(cpus) :
    pc' # "threw" => (i <= Len(cpus') /\ cpus'[i]._modelName = cpus[i]._modelName)

ResolvesInOrderAt(lines, names, implementerAt, partAt) ==
  /\ implementerAt > 0
  /\ implementerAt < partAt
  /\ \A i \in 1..Len(names) :
       /\ i \notin {implementerAt, partAt} => names[i] \notin {"CPU part", "CPU implementer"}
       /\ i > partAt => names[i] \notin {"model name", "Processor"}
  /\ \A i \in {implementerAt, partAt} : Find(FirstColonValue(lines[i]), <<":">>) = 0

ResolvesInOrder(block) ==
  ResolvesInOrderAt(LinesOf(block), LineNames(block), LineIndex(block, "CPU implementer"),
                    LineIndex(block, "CPU part"))

FirstPresent(fs, paths) ==
  LET present == {i \in 1..Len(paths) : \E f \in fs : f[1] = paths[i] /\ f[2] >= 0}
      first == CHOOSE i \in present : \A j \in present : i <= j
  IN IF present = {} THEN 0 - 1
     ELSE (CHOOSE f \in fs : f[1] = paths[first])[2] \div 1000

FrequencyFiles ==
  {"scaling_max_freq", "cpuinfo_max_freq", "scaling_min_freq", "cpuinfo_min_freq",
   "base_frequency", "scaling_cur_freq", "cpuinfo_cur_freq"}

\* every path of the list is a file of the core or of its policy group, the
\* files of the core first
PerCoreFirst(paths, core_id) ==
  LET perCore == {basePath(core_id) \o n : n \in FrequencyFiles}
      policy == {policyPath(core_id) \o n : n \in FrequencyFiles}
  IN /\ \A i \in 1..Len(paths) : paths[i] \in perCore \cup policy
     /\ \A i, j \in 1..Len(paths) : (paths[i] \in perCore /\ paths[j] \in policy) => i < j
     /\ \E i, j \in 1..Len(paths) : paths[i] \in perCore /\ paths[j] \in policy

\* the core ids the lists are looked at for
ProbedIds == (0 - 1)..3

\* C12: the clock speeds of every record, and the minimum clock speed of
\* every core, are the value in MHz of the first path of the list that holds
\* a value of 0 or more, -1 when no path does; the lists name the files of the
\* core before the files of the policy group
FrequencyFromFirstPresent ==
  /\ \A i \in 1..Len(cpus) :
       pc = "done" =>
         /\ cpus[i]._maxClockSpeed_MHz =
              FirstPresent(sysfs, maxFrequencyPaths(cpus[i]._id))
         /\ cpus[i]._regularClockSpeed_MHz =
              FirstPresent(sysfs, regularFrequencyPaths(cpus[i]._id))
  /\ pc = "start" =>
       \A id \in ProbedIds :
         /\ getMinClockSpeed_MHz(sysfs, id) = FirstPresent(sysfs, minFrequencyPaths(id))
         /\ getMaxClockSpeed_MHz(sysfs, id) = FirstPresent(sysfs, maxFrequencyPaths(id))
         /\ getRegularClockSpeed_MHz(sysfs, id) =
              FirstPresent(sysfs, regularFrequencyPaths(id))
         /\ PerCoreFirst(maxFrequencyPaths(id), id)
         /\ PerCoreFirst(minFrequencyPaths(id), id)
         /\ PerCoreFirst(regularFrequencyPaths(id), id)

\* records probed in a tree that has files of the core and of the policy
\* group: one whose first file wins over later ones, one without any file
FrequencyFromFirstPresentWitness ==
  /\ pc = "done"
  /\ sysfs = SysfsPerCore \cup SysfsPolicy
  /\ \E i, j \in 1..Len(cpus) :
       /\ cpus[i]._id = 0
       /\ cpus[i]._maxClockSpeed_MHz = 3400
       /\ cpus[j]._maxClockSpeed_MHz = 0 - 1

\* ------------------------------------------------------------------------
\* Properties of the reconciliation pass (specification Spec)
\* ------------------------------------------------------------------------
\* the places of the blocks of the input that have a CPU implementer line
ArmBlocks == {i \in 1..Len(InputBlocks) : LineIndex(InputBlocks[i], "CPU implementer") > 0}

\* the vendor strings a block with a CPU implementer line can give
ArmVendors ==
  {e[2] : e \in ARM_IMPLEMENTERS} \cup
  {"Unknown Vendor (" \o ImplementerCode(InputBlocks[i]) \o ")" : i \in ArmBlocks}

\* the core ids the topology files of sysfs give for the processors of the
\* ARM blocks
ArmCoreIds ==
  {get_specs_by_file_path(sysfs,
     "/sys/devices/system/cpu/cpu" \o Str(ValueOfLine(InputBlocks[i], "processor"))
        \o "/topology/core_id") : i \in ArmBlocks}

\* C13: when ARM was detected, every ARM-vendor record returned has as
\* numLogicalCores the number of ARM logical processors of the input and as
\* numPhysicalCores the number of distinct core ids of their topology files
\* (looked at on the inputs that hold ARM blocks only)
ReconciledToTotals ==
  (pc = "done" /\ isARM /\ Cardinality(ArmBlocks) = Len(InputBlocks)) =>
    \A i \in 1..Len(cpus) :
      cpus[i]._vendor \in ArmVendors =>
        /\ cpus[i]._numLogicalCores = Cardinality(ArmBlocks)
        /\ cpus[i]._numPhysicalCores = Cardinality(ArmCoreIds)

\* C14: when ARM was detected, every record returned that came from an x86
\* block (a block with a vendor_id line) has the numPhysicalCores and
\* numLogicalCores that the cpu cores and siblings lines of such a block give
X86RecordsKeepCounts ==
  (pc = "done" /\ isARM) =>
    \A i \in 1..Len(cpus) :
      cpus[i]._vendor = "GenuineIntel" =>
        \E k \in 1..Len(InputBlocks) :
          /\ LineIndex(InputBlocks[k], "vendor_id") > 0
          /\ cpus[i]._numPhysicalCores = BlockFields(InputBlocks[k]).cpu._numPhysicalCores
          /\ cpus[i]._numLogicalCores = BlockFields(InputBlocks[k]).cpu._numLogicalCores

\* ------------------------------------------------------------------------
\* Properties of the per-thread sampler (specification SpecSampler)
\* ------------------------------------------------------------------------
\* C15: a threadsUtilisation call that returns gives numLogicalCores entries;
\* it has sampled the indexes 0 .. numLogicalCores - 1 in this order, each
\* once, and entry i is the value threadUtilisation gives for the sample of i
ThreadsInIndexOrder ==
  (callOf.op = "threadsUtilisation" /\ outcome = "returned") =>
    /\ Len(ret) = callOf.n
    /\ Len(samples) = callOf.n
    /\ \A k \in 1..Len(samples) :
         /\ samples[k].index = k - 1
         /\ k <= Len(ret)
         /\ ret[k] = PercentageResult(DeltaRatio(samples[k].current, samples[k].base))

\* a call on a record of two logical cores that gave two different values
ThreadsInIndexOrderWitness ==
  /\ callOf.op = "threadsUtilisation"
  /\ outcome = "returned"
  /\ callOf.n = 2
  /\ Len(ret) = 2
  /\ ret[1] # ret[2]

\* the calls that return values of threadUtilisation
IsThreadCall == callOf.op \in {"threadUtilisation", "threadsUtilisation"} /\ outcome = "returned"

\* the ratio of the deltas of the k-th sample of the latest call
SampleRatio(k) == DeltaRatio(samples[k].current, samples[k].base)

\* C16: every value threadUtilisation returns is in [0, 100] or is -1.0, and
\* it is -1.0 when the ratio of the deltas is negative, above 100 or not a
\* number
ThreadResultInPercentRange ==
  IsThreadCall =>
    /\ Len(samples) = Len(ret)
    /\ \A k \in 1..Len(ret) :
         /\ \/ ret[k] = MinusOne
            \/ ret[k].kind = "fin" /\ 0 <= ret[k].n /\ ret[k].n <= 100 * ret[k].d
         /\ (Less(SampleRatio(k), 0) \/ Greater(SampleRatio(k), 100) \/ isnan(SampleRatio(k)))
              => ret[k] = MinusOne

\* one call that met a negative ratio and returned a value above 1
ThreadResultInPercentRangeWitness ==
  /\ IsThreadCall
  /\ \E k, m \in 1..Len(ret) :
       /\ Less(SampleRatio(k), 0)
       /\ ret[m].kind = "fin"
       /\ ret[m].n > ret[m].d

\* the value of the first line of that name, empty when the block has none
ValueOrEmpty(block, name) ==
  IF LineIndex(block, name) = 0 THEN <<>> ELSE ValueOfLine(block, name)

\* the (implementer, variant, part) triple of a block, the implementer code
\* without its 0x prefix
WithoutHexPrefix(code) == IF HasHexPrefix(code) THEN SubSeq(code, 3, Len(code)) ELSE code

TripleOf(block) ==
  << WithoutHexPrefix(ValueOrEmpty(block, "CPU implementer")),
     ValueOrEmpty(block, "CPU variant"),
     ValueOrEmpty(block, "CPU part") >>

\* the step did with a candidate of that id what the duplicate guard asks:
\* added it as the last record when no record had the id, dropped it otherwise
CandidateSettled(id) ==
  IF \E i \in 1..Len(cpus) : cpus[i]._id = id
  THEN cpus' = cpus
  ELSE Len(cpus') = Len(cpus) + 1 /\ cpus'[Len(cpus')]._id = id

\* the step recorded the triple and settled a candidate whose id is the id
\* of the record added last when the triple was recorded before, and
\* processor otherwise
ArmIdentityStep(triple, processor) ==
  /\ DOMAIN armCoreMap' = DOMAIN armCoreMap \cup {triple}
  /\ IF triple \in DOMAIN armCoreMap
     THEN cpus # <<>> /\ CandidateSettled(cpus[Len(cpus)]._id)
     ELSE CandidateSettled(processor)

\* a block with a processor line is handled with ARM detected
ArmResolutionStep ==
  /\ pc = "loop"
  /\ cpuBlocks # <<>>
  /\ pc' = "loop"
  /\ isARM'
  /\ LineIndex(Head(cpuBlocks), "processor") > 0

\* C18: when a block is handled with ARM detected, its triple is recorded in
\* the core map; if the map did not hold the triple yet the candidate's id is
\* the block's own processor value, and if it did the candidate's id is the id
\* of the record added last.
ArmIdentityResolved ==
  [][ ArmResolutionStep =>
        ArmIdentityStep(TripleOf(Head(cpuBlocks)),
                        stoi(ValueOfLine(Head(cpuBlocks), "processor")).val) ]_vars

\* three ARM blocks, the third with the triple of the first: two records,
\* with the processor values of the first two blocks as ids
ArmIdentityResolvedWitness ==
  /\ pc = "done"
  /\ isARM
  /\ Len(InputBlocks) = 3
  /\ Cardinality(ArmBlocks) = 3
  /\ TripleOf(InputBlocks[3]) = TripleOf(InputBlocks[1])
  /\ TripleOf(InputBlocks[2]) # TripleOf(InputBlocks[1])
  /\ Len(cpus) = 2
  /\ \A i \in 1..2 : cpus[i]._id = stoi(ValueOfLine(InputBlocks[i], "processor")).val

\* what the claim needs of one block: whether it is an x86 block with a
\* physical id whose values parse, that id, and the record made of its fields
\* alone
PackageSummary(names, fields, fs) ==
  [ ok |-> /\ \E i \in 1..Len(names) : names[i] = "physical id"
           /\ \A i \in 1..Len(names) : names[i] # "CPU implementer"
           /\ ~fields.threw
           /\ fields.cpu._id \in PhysicalIds,
    id |-> fields.cpu._id,
    rec |-> AddCpu(<<>>, fields.cpu, fs)[1] ]

RECURSIVE PackageSummaries(_, _)
PackageSummaries(blocks, fs) ==
  IF blocks = <<>> THEN <<>>
  ELSE << PackageSummary(LineNames(Head(blocks)), BlockFields(Head(blocks)), fs) >>
       \o PackageSummaries(Tail(blocks), fs)

\* every block has a line of that name
AllHaveLine(blocks, name) == \A i \in 1..Len(blocks) : HasLine(blocks[i], name)

\* the places, among the first n blocks, of the blocks whose physical id no
\* block before them has
FirstsRead(sums, n) ==
  {i \in 1..n : \A j \in 1..(i - 1) : sums[j].id # sums[i].id}

\* the k-th smallest member of a set of numbers
KthOf(S, k) == CHOOSE i \in S : Cardinality({j \in S : j < i}) = k - 1

\* every block of the input is an x86 block with a physical id
PackagesInput(sums) == sums # <<>> /\ \A i \in 1..Len(sums) : sums[i].ok

\* after n blocks cs holds the records of the first blocks of the packages
\* read, in the order of their first blocks
RecordsOfFirsts(cs, sums, n) ==
  /\ Len(cs) = Cardinality(FirstsRead(sums, n))
  /\ \A k \in 1..Len(cs) : cs[k] = sums[KthOf(FirstsRead(sums, n), k)].rec

PackagesRead(sums) ==
  PackagesInput(sums) => RecordsOfFirsts(cpus, sums, Len(sums) - Len(cpuBlocks))

\* C19: on an input of x86 blocks that each have a physical id, after every
\* block read cpus holds one record per distinct physical id read so far, in
\* the order in which the ids first appeared, and each record is the one made
\* of the fields of the first block with its id.
OneRecordPerPackage ==
  (pc \in {"loop", "done"} /\ AllHaveLine(InputBlocks, "physical id")) =>
    PackagesRead(PackageSummaries(InputBlocks, sysfs))

\* the input is three blocks of packages, the third of the package of the
\* first with other values
RepeatedPackage(sums) ==
  /\ PackagesInput(sums)
  /\ Len(sums) = 3
  /\ sums[3].id = sums[1].id
  /\ sums[3].rec # sums[1].rec

\* three blocks of two packages, the first package again in the third block
\* with other values
OneRecordPerPackageWitness ==
  /\ pc = "done"
  /\ Len(cpus) = 2
  /\ AllHaveLine(InputBlocks, "physical id")
  /\ RepeatedPackage(PackageSummaries(InputBlocks, sysfs))

HasColon(line) == Find(line, <<":">>) > 0

\* the block without its lines that have no colon
ColonLines(block) == Block(SelectSeq(LinesOf(block), HasColon))

\* the model name of the block comes from one model name line: it has no
\* other line that sets the model name
NamedByModelLine(names) ==
  /\ Cardinality({i \in 1..Len(names) : names[i] = "model name"}) = 1
  /\ \A i \in 1..Len(names) : names[i] \notin {"Processor", "CPU part"}

\* C20: the record added for a block that is named by one model name line has
\* as modelName the whole stripped text after the first colon of that line,
\* and the lines of the block that have no colon change nothing of what the
\* block gives.
SplitOnFirstColon ==
  [][ AddsRecord =>
        /\ NamedByModelLine(LineNames(Head(cpuBlocks))) =>
             cpus'[Len(cpus')]._modelName = Str(ValueOfLine(Head(cpuBlocks), "model name"))
        /\ BlockFields(ColonLines(Head(cpuBlocks))) = BlockFields(Head(cpuBlocks)) ]_vars

\* one of the first n blocks has a line of that name
ReadLine(blocks, n, name) == \E i \in 1..n : HasLine(blocks[i], name)

\* C21: once a block with a CPU implementer line has been read, whatever its
\* code, the ARM flag is set, and it stays set for every later block and for
\* the reconciliation pass.
ImplementerSetsFlag ==
  (pc \in {"loop", "done"}
   /\ ReadLine(InputBlocks, Len(InputBlocks) - Len(cpuBlocks), "CPU implementer")) => isARM

\* what the claim needs of one block: whether it is an ARM block of a known
\* implementer with a processor value, its triple and that value
ArmSummary(block) ==
  [ known |-> /\ HasLine(block, "CPU implementer")
              /\ ImplementerCode(block) \in MapKeys(ARM_IMPLEMENTERS)
              /\ HasLine(block, "processor")
              /\ ~stoi(ValueOfLine(block, "processor")).threw,
    triple |-> TripleOf(block),
    processor |-> IF HasLine(block, "processor")
                  THEN stoi(ValueOfLine(block, "processor")).val ELSE 0 - 1 ]

RECURSIVE ArmSummaries(_)
ArmSummaries(blocks) ==
  IF blocks = <<>> THEN <<>> ELSE <<ArmSummary(Head(blocks))>> \o ArmSummaries(Tail(blocks))

\* every block of the input is an ARM block of a known implementer
ArmInput(sums) == sums # <<>> /\ \A k \in 1..Len(sums) : sums[k].known

\* block k is the first block of its triple
FirstOfTriple(sums, k) == \A j \in 1..(k - 1) : sums[j].triple # sums[k].triple

\* the number of blocks that carry the triple
BlocksOfTriple(sums, triple) == Cardinality({j \in 1..Len(sums) : sums[j].triple = triple})

\* every record made for the first block of a triple has the count stored
\* for that triple as both core counts, and that count is the number of
\* blocks of the triple
CountsOfOwnTriple(cs, map, sums) ==
  \A i \in 1..Len(cs), k \in 1..Len(sums) :
    (FirstOfTriple(sums, k) /\ cs[i]._id = sums[k].processor) =>
      /\ cs[i]._numLogicalCores = map[sums[k].triple]
      /\ cs[i]._numPhysicalCores = map[sums[k].triple]
      /\ map[sums[k].triple] = BlocksOfTriple(sums, sums[k].triple)

ReconciledByTriple(sums) == ArmInput(sums) => CountsOfOwnTriple(cpus, armCoreMap, sums)

\* C25: on an input of ARM blocks, the record returned for a triple has as
\* numPhysicalCores and numLogicalCores the value stored for that triple in
\* armCoreMap, which is the number of blocks of the input with that triple.
CountOfOwnTriple ==
  (pc = "done" /\ isARM) => ReconciledByTriple(ArmSummaries(InputBlocks))

\* ------------------------------------------------------------------------
\* Properties of the stored snapshot (specification SpecSampler)
\* ------------------------------------------------------------------------
\* C22: after every currentUtilisation call last is the snapshot the call
\* read, whatever it returned, and from the second call on the result is the
\* range test of the ratio of the deltas between the snapshots read by this
\* call and by the call before it.
LastIsLatestSnapshot ==
  /\ cur.n >= 1 => last = cur.read
  /\ cur.n >= 2 => cur.result = UtilisationResult(DeltaRatio(cur.read, cur.prev))

\* two currentUtilisation calls: the first returned the sentinel, the second
\* a ratio
LastIsLatestSnapshotWitness ==
  /\ calls = 2
  /\ cur.n = 2
  /\ UtilisationResult(DeltaRatio(cur.prev, jiffiesDefault)) = MinusOne
  /\ cur.result # MinusOne
  /\ cur.read # cur.prev

\* C23: every currentUtilisation call reads the aggregate counters, whatever
\* the record it is called on, and a call on one record is measured against
\* the snapshot stored by the call before it also when that call was made on
\* another record.
OneBaselineForAllRecords ==
  /\ cur.n >= 1 => cur.read \in get_jiffies(0, jiffiesDefault)
  /\ (cur.n >= 2 /\ cur.on # cur.prevOn) =>
       /\ last = cur.read
       /\ cur.result = UtilisationResult(DeltaRatio(cur.read, cur.prev))

\* a call on one record followed by a call on a record with another id, the
\* second returning the ratio of the deltas between the two
OneBaselineForAllRecordsWitness ==
  /\ cur.n = 2
  /\ cur.on # cur.prevOn
  /\ cpus[cur.on]._id # cpus[cur.prevOn]._id
  /\ cur.read # cur.prev
  /\ cur.result # MinusOne

\* C24: every thread index below the numLogicalCores of the record called is
\* inside the vector last: threadsUtilisation never ends in a fault, and every
\* threadUtilisation(i) that returned with i below numLogicalCores used an
\* entry of last.
ThreadIndexWithinLast ==
  /\ (callOf.op = "threadsUtilisation" /\ callOf.n >= 0) => outcome # "fault"
  /\ callOf.op \in {"threadUtilisation", "threadsUtilisation"} =>
       \A k \in 1..Len(samples) :
         samples[k].index < callOf.n => samples[k].index < Len(threadLast)

\* the entries of a result of n cores are those of the cores that can be read
EntriesOfCores(res, fs, n) ==
  \A k \in 0..(n - 1) :
    get_specs_by_file_path(fs, freqPath(k)) # 0 - 1 =>
      /\ k + 1 <= Len(res)
      /\ res[k + 1] = DivTowardZero(get_specs_by_file_path(fs, freqPath(k)), 1000)

\* C26: currentClockSpeed_MHz returns one entry per logical core, entry k
\* being the current frequency of core k in MHz also when the file of some
\* core cannot be read, and an empty sequence when numLogicalCores <= 0.
ClockSpeedPerCore ==
  (callOf.op = "currentClockSpeed_MHz" /\ outcome = "returned") =>
    /\ Len(ret) = (IF callOf.n <= 0 THEN 0 ELSE callOf.n)
    /\ EntriesOfCores(ret, sysfs, callOf.n)

\* the result is empty when numLogicalCores <= 0, and has the frequencies of
\* the cores that can be read, in the order of the cores
ClockSpeedOfReadableCores ==
  (callOf.op = "currentClockSpeed_MHz" /\ outcome = "returned") =>
    /\ callOf.n <= 0 => ret = <<>>
    /\ Len(ret) = Cardinality({k \in 0..(callOf.n - 1) :
                                 get_specs_by_file_path(sysfs, freqPath(k)) # 0 - 1})

\* ------------------------------------------------------------------------
\* Properties of concurrent callers (specification SpecRace)
\* ------------------------------------------------------------------------
AllIdle == \A t \in Callers : at[t] = "idle"

\* C17: as long as no call has begun while another was under way, the call
\* that returned last subtracted exactly the snapshot stored by the call that
\* returned before it (the default-constructed one for the first call), its
\* result is the range test of the ratio of these two snapshots, and between
\* calls last holds its snapshot, which is not older than any snapshot read.
SerializedCallsConsistent ==
  (~overlapped /\ completed.n > 0) =>
    /\ completed.base = completed.prev
    /\ completed.result =
         RangeTest(raceMethod, DeltaRatio(completed.current, completed.prev))
    /\ AllIdle => (last = completed.current /\ last.all >= maxUsed)

\* calls that overlapped: the call that returned last did not subtract the
\* snapshot of the call that returned before it, and last is left older than
\* a snapshot already read
SerializedCallsConsistentWitness ==
  /\ overlapped
  /\ AllIdle
  /\ completed.n >= 2
  /\ completed.base # completed.prev
  /\ last.all < maxUsed

\* two calls one after the other, the counters having changed in between
SerializedCallsReturned ==
  /\ ~overlapped
  /\ AllIdle
  /\ completed.n >= 2
  /\ completed.current # completed.prev
  /\ completed.result # MinusOne

====
